---- MODULE Spec2Model ----
(***************************************************************************)
(* Model of the text-to-sql MCP server: the five tools of                  *)
(* src/src/mcp_server.py over the DatabaseManager of src/src/database.py.  *)
(* Text (SQL, table names) is a sequence of one-character strings, so that *)
(* lower(), rstrip(), `in` and f-string formatting are computed as Python  *)
(* computes them.  One action is one complete tool call.                   *)
(***************************************************************************)
EXTENDS Integers, Sequences, FiniteSets, TLC

\* ---- bounds of the model ------------------------------------------------
\* longest scope list a presented token carries
MaxScopes == 2
\* most trailing ';' appended to a query text
MaxSemis == 1
\* caller-supplied limits range over 1..MaxLimitArg (and the default)
MaxLimitArg == 1

\* execute_sql_query(..., limit: int = 100)
DefaultLimit == 100

VARIABLES db_manager, connection, dbReachable, call

vars == <<db_manager, connection, dbReachable, call>>

\* ---- text ---------------------------------------------------------------
DigitChars ==
    <<"0","1","2","3","4","5","6","7","8","9">>

Range(s) == {s[i] : i \in 1..Len(s)}

\* str.lower() on one character
lower_char(c) ==
    CASE c = "A" -> "a" [] c = "B" -> "b" [] c = "C" -> "c" [] c = "D" -> "d"
      [] c = "E" -> "e" [] c = "F" -> "f" [] c = "G" -> "g" [] c = "H" -> "h"
      [] c = "I" -> "i" [] c = "J" -> "j" [] c = "K" -> "k" [] c = "L" -> "l"
      [] c = "M" -> "m" [] c = "N" -> "n" [] c = "O" -> "o" [] c = "P" -> "p"
      [] c = "Q" -> "q" [] c = "R" -> "r" [] c = "S" -> "s" [] c = "T" -> "t"
      [] c = "U" -> "u" [] c = "V" -> "v" [] c = "W" -> "w" [] c = "X" -> "x"
      [] c = "Y" -> "y" [] c = "Z" -> "z" [] OTHER -> c

\* str.lower()
lower(s) == [i \in 1..Len(s) |-> lower_char(s[i])]

\* Python's `needle in hay` on strings: substring test
str_in(needle, hay) ==
    \E i \in 1..(Len(hay) - Len(needle) + 1) :
        SubSeq(hay, i, i + Len(needle) - 1) = needle

RECURSIVE rstrip(_, _)
\* str.rstrip(c): drop every trailing occurrence of the character c
rstrip(s, c) ==
    IF Len(s) > 0 /\ s[Len(s)] = c THEN rstrip(SubSeq(s, 1, Len(s) - 1), c) ELSE s

RECURSIVE digits(_)
digits(n) ==
    IF n < 10 THEN <<DigitChars[n + 1]>>
    ELSE digits(n \div 10) \o <<DigitChars[(n % 10) + 1]>>

\* str(n) of an int, as an f-string renders it
str(n) == IF n < 0 THEN <<"-">> \o digits(0 - n) ELSE digits(n)

RECURSIVE repeat(_, _)
repeat(c, k) == IF k = 0 THEN <<>> ELSE <<c>> \o repeat(c, k - 1)

\* ---- literals of mcp_server.py and database.py ---------------------------
sensitive_keywords ==
    <<<<"p","a","s","s","w","o","r","d">>,
      <<"s","e","c","r","e","t">>,
      <<"t","o","k","e","n">>,
      <<"p","r","i","v","a","t","e">>,
      <<"c","o","n","f","i","d","e","n","t","i","a","l">>>>

dangerous_keywords ==
    <<<<"d","r","o","p">>,
      <<"d","e","l","e","t","e">>,
      <<"u","p","d","a","t","e">>,
      <<"i","n","s","e","r","t">>,
      <<"a","l","t","e","r">>,
      <<"c","r","e","a","t","e">>,
      <<"t","r","u","n","c","a","t","e">>>>

kw_limit ==
    <<"l","i","m","i","t">>

LimitClause ==
    <<" ","L","I","M","I","T"," ">>

DescribePrefix ==
    <<"D","E","S","C","R","I","B","E"," ">>

SamplePrefix ==
    <<"S","E","L","E","C","T"," ","*"," ","F","R","O","M"," ">>

SampleSuffix ==
    <<" ","L","I","M","I","T"," ","5">>

CountPrefix ==
    <<"S","E","L","E","C","T"," ","C","O","U","N","T","(","*",")"," ","a","s"," ","t","o","t","a","l","_","r","o","w","s"," ","F","R","O","M"," ">>

ShowTables ==
    <<"S","H","O","W"," ","T","A","B","L","E","S">>

\* ---- inputs ---------------------------------------------------------------
Sql_Select1 ==
    <<"S","E","L","E","C","T"," ","1">>

Sql_SelectUsers ==
    <<"S","E","L","E","C","T"," ","*"," ","F","R","O","M"," ","u","s","e","r","s">>

Sql_lowerLimit ==
    <<"s","e","l","e","c","t"," ","a"," ","f","r","o","m"," ","t"," ","l","i","m","i","t"," ","5">>

Sql_UpperLimit ==
    <<"S","E","L","E","C","T"," ","a"," ","F","R","O","M"," ","t"," ","L","I","M","I","T"," ","5">>

Sql_MidSemi ==
    <<"S","E","L","E","C","T"," ","1",";","S","E","L","E","C","T"," ","2">>

Sql_Drop ==
    <<"D","R","O","P"," ","T","A","B","L","E"," ","t">>

Sql_dropbox ==
    <<"s","e","l","e","c","t"," ","*"," ","f","r","o","m"," ","d","r","o","p","b","o","x">>

Sql_Truncate ==
    <<"T","R","U","N","C","A","T","E"," ","t">>

Sql_Password ==
    <<"S","E","L","E","C","T"," ","p","a","s","s","w","o","r","d"," ","F","R","O","M"," ","t">>

Sql_Update ==
    <<"U","p","d","a","t","e"," ","t"," ","s","e","t"," ","a","=","1">>

Sql_delete ==
    <<"d","e","l","e","t","e"," ","f","r","o","m"," ","t">>

Sql_Insert ==
    <<"I","N","S","E","R","T"," ","I","N","T","O"," ","t">>

Sql_alter ==
    <<"a","l","t","e","r"," ","t","a","b","l","e"," ","t">>

Sql_Create ==
    <<"C","r","e","a","t","e"," ","t","a","b","l","e"," ","t">>

SqlBases ==
    {Sql_Select1, Sql_SelectUsers, Sql_lowerLimit, Sql_UpperLimit, Sql_MidSemi, Sql_Drop, Sql_dropbox, Sql_Truncate, Sql_Password, Sql_Update, Sql_delete, Sql_Insert, Sql_alter, Sql_Create}

Tbl_users ==
    <<"u","s","e","r","s">>

Tbl_nonexistent ==
    <<"n","o","n","e","x","i","s","t","e","n","t","_","t","a","b","l","e">>

\* sql_query arguments: a base text followed by 0..MaxSemis trailing ';'
SqlQueries == {b \o repeat(";", k) : b \in SqlBases, k \in 0..MaxSemis}

\* limit arguments: the default and small caller-supplied values
Limits == {DefaultLimit} \cup (1..MaxLimitArg)

TableNames == {Tbl_users, Tbl_nonexistent}

Scopes == {"data:read_tables", "data:read_table_data", "data:other"}

ScopeLists == UNION {[1..n -> Scopes] : n \in 0..MaxScopes}

ClientIds == {"58bf32d9"}

\* what get_access_token() can do: return None, raise, or return an AccessToken
NoToken == [kind |-> "none", client_id |-> "", scopes |-> <<>>]

LookupRaises == [kind |-> "raises", client_id |-> "", scopes |-> <<>>]

AccessTokens == [kind : {"token"}, client_id : ClientIds, scopes : ScopeLists]

TokenLookups == {NoToken, LookupRaises} \cup AccessTokens

\* tokens whose client_id is empty (get_user_permissions reports "unknown")
UnnamedTokens == [kind : {"token"}, client_id : {""}, scopes : ScopeLists]

\* what the server does with one statement handed to cursor.execute
DbOutcomes == {"error", "empty", "rows"}

\* rows are sequences of <<column, value>> pairs, in column order
DbRows(kind) ==
    CASE kind = "show" ->
           << << <<"Tables_in_db", "users">> >>, << <<"Tables_in_db", "orders">> >> >>
      [] kind = "describe" ->
           << << <<"Field", "id">>, <<"Type", "int">> >> >>
      [] kind = "count" ->
           << << <<"total_rows", 7>> >> >>
      [] OTHER ->
           << << <<"id", "1">>, <<"name", "a">> >> >>

\* ---- errors ---------------------------------------------------------------
\* a ToolError: its kind, the handler prefix it was wrapped with, the missing
\* scopes and the table its message names
Err(kind, wrap, missing, table) ==
    [kind |-> kind, wrap |-> wrap, missing |-> missing, table |-> table]

NoError == Err("none", "", <<>>, <<>>)

NoEnvelope == [none |-> TRUE]

\* ---- database.py ----------------------------------------------------------
\* result of execute_query: None, or a (possibly empty) list of rows
NoneResult == [is_none |-> TRUE, rows |-> <<>>]

ListResult(rows) == [is_none |-> FALSE, rows |-> rows]

\* Python truthiness of an execute_query result
truthy(res) == ~res.is_none /\ Len(res.rows) > 0

\* DatabaseManager.connect: sets self.connection on success, returns False on failure
connect(conn, up) ==
    [connection |-> IF up THEN "Connection" ELSE conn, ok |-> up]

\* DatabaseManager.execute_query: None without a connection or on any exception,
\* [] for no rows, the rows otherwise; self.connection is not assigned
execute_query_reset(conn, up, ans, kind) ==
    IF conn = "None" THEN [result |-> NoneResult, connection |-> conn, sent |-> FALSE]
    ELSE IF ~up \/ ans = "error"
         THEN [result |-> NoneResult, connection |-> "None", sent |-> TRUE]
         ELSE [result |-> ListResult(IF ans = "rows" THEN DbRows(kind) ELSE <<>>),
               connection |-> conn, sent |-> TRUE]

execute_query(conn, up, ans, kind) ==
    IF conn = "None" THEN [result |-> NoneResult, connection |-> conn, sent |-> FALSE]
    ELSE IF ~up \/ ans = "error"
         THEN [result |-> NoneResult, connection |-> conn, sent |-> TRUE]
         ELSE [result |-> ListResult(IF ans = "rows" THEN DbRows(kind) ELSE <<>>),
               connection |-> conn, sent |-> TRUE]

\* value of column `key` in a row
row_get(row, key) == row[CHOOSE i \in 1..Len(row) : row[i][1] = key][2]

\* DatabaseManager.get_all_tables: first column of each row; [] when the result is falsy
get_all_tables(conn, up, ans) ==
    LET q == execute_query(conn, up, ans, "show")
    IN  [tables |-> IF truthy(q.result)
                    THEN [i \in 1..Len(q.result.rows) |-> q.result.rows[i][1][2]]
                    ELSE <<>>,
         connection |-> q.connection,
         queries |-> <<ShowTables>>,
         results |-> <<q.result>>]

\* DatabaseManager.get_table_info: three queries; execute_query never raises, so the
\* except branch returning {} is never taken and the dict always has its three keys
get_table_info(conn, up, a1, a2, a3, table_name) ==
    LET q1 == execute_query(conn, up, a1, "describe")
        q2 == execute_query(q1.connection, up, a2, "sample")
        q3 == execute_query(q2.connection, up, a3, "count")
    IN  [table_info |-> [empty |-> FALSE,
                         structure |-> q1.result,
                         sample_data |-> q2.result,
                         total_rows |-> IF truthy(q3.result)
                                        THEN row_get(q3.result.rows[1], "total_rows")
                                        ELSE 0],
         connection |-> q3.connection,
         queries |-> <<DescribePrefix \o table_name,
                       SamplePrefix \o table_name \o SampleSuffix,
                       CountPrefix \o table_name>>,
         results |-> <<q1.result, q2.result, q3.result>>]

\* ---- mcp_server.py --------------------------------------------------------
\* initialize_services: db_manager is assigned before connect() is tried
initialize_services(dbm, conn, up) ==
    IF dbm = "None"
    THEN LET c == connect("None", up)
         IN  [db_manager |-> "DatabaseManager", connection |-> c.connection,
              raised |-> ~c.ok, connectCalls |-> 1]
    ELSE [db_manager |-> dbm, connection |-> conn, raised |-> FALSE, connectCalls |-> 0]

\* get_validated_access_token: None and a raising lookup both end as a ToolError
get_validated_access_token(lookup) ==
    CASE lookup.kind = "raises" -> Err("TokenLookupError", "auth", <<>>, <<>>)
      [] lookup.kind = "none" -> Err("MissingToken", "auth", <<>>, <<>>)
      [] OTHER -> NoError

missing_scopes(scopes, required_scopes) ==
    SelectSeq(required_scopes, LAMBDA s : s \notin Range(scopes))

missing_scopes_swapped(scopes, required_scopes) ==
    SelectSeq(scopes, LAMBDA s : s \notin Range(required_scopes))

\* check_permissions with the missing-scope test left out
check_permissions_nonempty(access_token, required_scopes) ==
    IF Len(access_token.scopes) = 0
    THEN Err("NoPermissions", "", <<>>, <<>>)
    ELSE NoError

\* check_permissions with the comprehension's two lists exchanged
check_permissions_swapped(access_token, required_scopes) ==
    IF Len(access_token.scopes) = 0
    THEN Err("NoPermissions", "", <<>>, <<>>)
    ELSE LET missing == missing_scopes_swapped(access_token.scopes, required_scopes)
         IN  IF Len(missing) > 0
             THEN Err("InsufficientScope", "", missing, <<>>)
             ELSE NoError

\* check_permissions
check_permissions(access_token, required_scopes) ==
    IF Len(access_token.scopes) = 0
    THEN Err("NoPermissions", "", <<>>, <<>>)
    ELSE LET missing == missing_scopes(access_token.scopes, required_scopes)
         IN  IF Len(missing) > 0
             THEN Err("InsufficientScope", "", missing, <<>>)
             ELSE NoError

\* the two guard lines that open every scope-gated tool
guard(lookup, required_scopes) ==
    LET v == get_validated_access_token(lookup)
    IN  IF v.kind # "none" THEN v ELSE check_permissions(lookup, required_scopes)

\* any(keyword in sql_query.lower() for keyword in keywords)
any_keyword(sql_query, keywords) ==
    LET lowered == lower(sql_query)
    IN  \E i \in 1..Len(keywords) : str_in(keywords[i], lowered)

\* a call that ended in a ToolError before any database activity
Rejected(err, dbm, conn) ==
    [outcome |-> "error", error |-> err, envelope |-> NoEnvelope,
     db_manager |-> dbm, connection |-> conn, connectCalls |-> 0,
     queries |-> <<>>, results |-> <<>>, called_init |-> FALSE,
     query_connection |-> conn]

\* a call whose initialize_services() raised; the handler wraps it with its prefix
InitFailed(wrap, init) ==
    [outcome |-> "error", error |-> Err("ServiceInitError", wrap, <<>>, <<>>),
     envelope |-> NoEnvelope,
     db_manager |-> init.db_manager, connection |-> init.connection,
     connectCalls |-> init.connectCalls,
     queries |-> <<>>, results |-> <<>>, called_init |-> TRUE,
     query_connection |-> init.connection]

\* tool get_database_tables
get_database_tables(lookup, dbm, conn, up, ans) ==
    LET g == guard(lookup, <<"data:read_tables">>)
        init == initialize_services(dbm, conn, up)
        t == get_all_tables(init.connection, up, ans)
    IN  IF g.kind # "none" THEN Rejected(g, dbm, conn)
        ELSE IF init.raised THEN InitFailed("get_tables", init)
        ELSE [outcome |-> "envelope", error |-> NoError,
              envelope |-> [user_id |-> lookup.client_id,
                            tables |-> t.tables,
                            total_tables |-> Len(t.tables),
                            message |-> <<"tables fetched", Len(t.tables)>>],
              db_manager |-> init.db_manager, connection |-> t.connection,
              connectCalls |-> init.connectCalls,
              queries |-> t.queries, results |-> t.results, called_init |-> TRUE,
              query_connection |-> init.connection]

\* tool get_table_structure
get_table_structure(lookup, table_name, dbm, conn, up, a1, a2, a3) ==
    LET g == guard(lookup, <<"data:read_tables">>)
        init == initialize_services(dbm, conn, up)
        t == get_table_info(init.connection, up, a1, a2, a3, table_name)
        info == t.table_info
    IN  IF g.kind # "none" THEN Rejected(g, dbm, conn)
        ELSE IF init.raised THEN InitFailed("get_structure", init)
        ELSE IF info.empty
        THEN [outcome |-> "error",
              error |-> Err("TableNotFound", "get_structure", <<>>, table_name),
              envelope |-> NoEnvelope,
              db_manager |-> init.db_manager, connection |-> t.connection,
              connectCalls |-> init.connectCalls,
              queries |-> t.queries, results |-> t.results, called_init |-> TRUE,
              query_connection |-> init.connection]
        ELSE [outcome |-> "envelope", error |-> NoError,
              envelope |-> [user_id |-> lookup.client_id,
                            table_name |-> table_name,
                            total_rows |-> info.total_rows,
                            has_structure |-> ~info.structure.is_none,
                            structure |-> info.structure.rows,
                            has_sample_data |-> ~info.sample_data.is_none,
                            sample_data |-> info.sample_data.rows],
              db_manager |-> init.db_manager, connection |-> t.connection,
              connectCalls |-> init.connectCalls,
              queries |-> t.queries, results |-> t.results, called_init |-> TRUE,
              query_connection |-> init.connection]

\* the LIMIT step with the strip of trailing ';' left out
add_limit_nostrip(sql_query, limit) ==
    IF ~str_in(kw_limit, lower(sql_query))
    THEN sql_query \o LimitClause \o str(limit)
    ELSE sql_query

\* the LIMIT step of execute_sql_query:
\* if 'limit' not in sql_query.lower(): f"{sql_query.rstrip(';')} LIMIT {limit}"
add_limit(sql_query, limit) ==
    IF ~str_in(kw_limit, lower(sql_query))
    THEN rstrip(sql_query, ";") \o LimitClause \o str(limit)
    ELSE sql_query

\* the keyword list without its last entry
is_dangerous_short(sql_query) ==
    any_keyword(sql_query, SubSeq(dangerous_keywords, 1, Len(dangerous_keywords) - 1))

\* the safety check of execute_sql_query
is_dangerous(sql_query) == any_keyword(sql_query, dangerous_keywords)

\* tool execute_sql_query
execute_sql_query(lookup, sql_query, limit, dbm, conn, up, ans) ==
    LET g == guard(lookup, <<"data:read_table_data">>)
        is_sensitive == any_keyword(sql_query, sensitive_keywords)
        g2 == IF is_sensitive
              THEN check_permissions(lookup, <<"data:read_table_data">>)
              ELSE NoError
        init == initialize_services(dbm, conn, up)
        text == add_limit(sql_query, limit)
        q == execute_query(init.connection, up, ans, "user")
        rows == q.result.rows
    IN  IF g.kind # "none" THEN Rejected(g, dbm, conn)
        ELSE IF g2.kind # "none" THEN Rejected(g2, dbm, conn)
        ELSE IF is_dangerous(sql_query)
        THEN Rejected(Err("ForbiddenOperation", "", <<>>, <<>>), dbm, conn)
        ELSE IF init.raised THEN InitFailed("query", init)
        ELSE IF q.result.is_none
        THEN [outcome |-> "error",
              error |-> Err("QueryExecutionFailed", "query", <<>>, <<>>),
              envelope |-> NoEnvelope,
              db_manager |-> init.db_manager, connection |-> q.connection,
              connectCalls |-> init.connectCalls,
              queries |-> <<text>>, results |-> <<q.result>>, called_init |-> TRUE,
              query_connection |-> init.connection]
        ELSE [outcome |-> "envelope", error |-> NoError,
              envelope |-> [user_id |-> lookup.client_id,
                            query |-> text,
                            row_count |-> Len(rows),
                            columns |-> IF Len(rows) > 0
                                        THEN [i \in 1..Len(rows[1]) |-> rows[1][i][1]]
                                        ELSE <<>>,
                            data |-> rows,
                            message |-> <<"query ok, rows", Len(rows)>>],
              db_manager |-> init.db_manager, connection |-> q.connection,
              connectCalls |-> init.connectCalls,
              queries |-> <<text>>, results |-> <<q.result>>, called_init |-> TRUE,
              query_connection |-> init.connection]

\* client_id or "unknown"
or_unknown(client_id) == IF client_id = "" THEN "unknown" ELSE client_id

\* tool get_user_permissions
get_user_permissions(lookup, dbm, conn) ==
    LET env == CASE lookup.kind = "raises" ->
                      [user_id |-> "error", scopes |-> <<>>,
                       can_read_tables |-> FALSE, can_read_table_data |-> FALSE,
                       message |-> "permission check error"]
                 [] lookup.kind = "none" ->
                      [user_id |-> "anonymous", scopes |-> <<>>,
                       can_read_tables |-> FALSE, can_read_table_data |-> FALSE,
                       message |-> "unauthenticated, no permissions"]
                 [] OTHER ->
                      [user_id |-> or_unknown(lookup.client_id),
                       scopes |-> lookup.scopes,
                       can_read_tables |-> "data:read_tables" \in Range(lookup.scopes),
                       can_read_table_data |->
                           "data:read_table_data" \in Range(lookup.scopes),
                       message |-> "permissions fetched"]
    IN  [outcome |-> "envelope", error |-> NoError, envelope |-> env,
         db_manager |-> dbm, connection |-> conn, connectCalls |-> 0,
         queries |-> <<>>, results |-> <<>>, called_init |-> FALSE,
         query_connection |-> conn]

\* health_check without its try/except
health_check_uncaught(dbm, conn, up) ==
    LET init == initialize_services(dbm, conn, up)
    IN  IF init.raised THEN InitFailed("", init)
        ELSE [outcome |-> "envelope", error |-> NoError,
              envelope |-> [status |-> "healthy",
                            database_connected |-> init.db_manager # "None",
                            message |-> "service ok"],
              db_manager |-> init.db_manager, connection |-> init.connection,
              connectCalls |-> init.connectCalls,
              queries |-> <<>>, results |-> <<>>, called_init |-> TRUE,
              query_connection |-> init.connection]

\* tool health_check
health_check(dbm, conn, up) ==
    LET init == initialize_services(dbm, conn, up)
    IN  [outcome |-> "envelope", error |-> NoError,
         envelope |-> IF init.raised
                      THEN [status |-> "unhealthy", database_connected |-> FALSE,
                            message |-> "service error: database connect failed"]
                      ELSE [status |-> "healthy",
                            database_connected |-> init.db_manager # "None",
                            message |-> "service ok"],
         db_manager |-> init.db_manager, connection |-> init.connection,
         connectCalls |-> init.connectCalls,
         queries |-> <<>>, results |-> <<>>, called_init |-> TRUE,
         query_connection |-> init.connection]

\* ---- the state machine ----------------------------------------------------
NoCall ==
    [op |-> "none", lookup |-> NoToken, sql_query |-> <<>>, limit |-> DefaultLimit,
     table_name |-> <<>>, outcome |-> "none", error |-> NoError,
     envelope |-> NoEnvelope, connectCalls |-> 0, queries |-> <<>>, results |-> <<>>,
     called_init |-> FALSE, query_connection |-> "None",
     pre_db_manager |-> "None", pre_connection |-> "None", dbUp |-> FALSE]

\* module load: db_manager = None; the server behind DB_HOST is up or down
Init ==
    /\ db_manager = "None"
    /\ connection = "None"
    /\ dbReachable \in BOOLEAN
    /\ call = NoCall

\* calls are served one at a time: no call is between its start and its return
Idle == call.op = "none"

\* one complete tool call; `call` holds the finished call until its response is
\* handed to the caller
Commit(op, lookup, sql_query, limit, table_name, result) ==
    /\ \E r \in {result} :
        /\ db_manager' = r.db_manager
        /\ connection' = r.connection
        /\ call' = [op |-> op, lookup |-> lookup, sql_query |-> sql_query,
                    limit |-> limit, table_name |-> table_name,
                    outcome |-> r.outcome, error |-> r.error, envelope |-> r.envelope,
                    connectCalls |-> r.connectCalls, queries |-> r.queries,
                    results |-> r.results, called_init |-> r.called_init,
                    query_connection |-> r.query_connection,
                    pre_db_manager |-> db_manager, pre_connection |-> connection,
                    dbUp |-> dbReachable]
    /\ UNCHANGED dbReachable

GetDatabaseTables ==
    /\ Idle
    /\ \E lookup \in TokenLookups, ans \in DbOutcomes :
        Commit("get_database_tables", lookup, <<>>, DefaultLimit, <<>>,
               get_database_tables(lookup, db_manager, connection, dbReachable, ans))

GetTableStructure ==
    /\ Idle
    /\ \E lookup \in TokenLookups, table_name \in TableNames,
       a1 \in DbOutcomes, a2 \in DbOutcomes, a3 \in DbOutcomes :
        Commit("get_table_structure", lookup, <<>>, DefaultLimit, table_name,
               get_table_structure(lookup, table_name, db_manager, connection,
                                   dbReachable, a1, a2, a3))

ExecuteSqlQuery ==
    /\ Idle
    /\ \E lookup \in TokenLookups, sql_query \in SqlQueries, limit \in Limits,
       ans \in DbOutcomes :
        Commit("execute_sql_query", lookup, sql_query, limit, <<>>,
               execute_sql_query(lookup, sql_query, limit, db_manager, connection,
                                 dbReachable, ans))

GetUserPermissions ==
    /\ Idle
    /\ \E lookup \in TokenLookups \cup UnnamedTokens :
        Commit("get_user_permissions", lookup, <<>>, DefaultLimit, <<>>,
               get_user_permissions(lookup, db_manager, connection))

HealthCheck ==
    /\ Idle
    /\ \E lookup \in TokenLookups :
        Commit("health_check", lookup, <<>>, DefaultLimit, <<>>,
               health_check(db_manager, connection, dbReachable))

\* the MySQL server stops answering (connect and cursor.execute raise)
DbGoesDown ==
    /\ Idle
    /\ dbReachable
    /\ dbReachable' = FALSE
    /\ UNCHANGED <<db_manager, connection, call>>

\* the MySQL server answers again
DbComesUp ==
    /\ Idle
    /\ ~dbReachable
    /\ dbReachable' = TRUE
    /\ UNCHANGED <<db_manager, connection, call>>

\* the response (envelope or ToolError) is returned to the caller
Return ==
    /\ ~Idle
    /\ call' = NoCall
    /\ UNCHANGED <<db_manager, connection, dbReachable>>

Next ==
    \/ GetDatabaseTables
    \/ GetTableStructure
    \/ ExecuteSqlQuery
    \/ GetUserPermissions
    \/ HealthCheck
    \/ DbGoesDown
    \/ DbComesUp
    \/ Return

Spec == Init /\ [][Next]_vars


\* ==== properties ============================================================
GatedOps == {"get_database_tables", "get_table_structure", "execute_sql_query"}

\* the scopes each operation declares
RequiredScopes(op) ==
    CASE op = "get_database_tables" -> {"data:read_tables"}
      [] op = "get_table_structure" -> {"data:read_tables"}
      [] op = "execute_sql_query" -> {"data:read_table_data"}
      [] OTHER -> {}

AuthErrorKinds == {"MissingToken", "TokenLookupError", "NoPermissions", "InsufficientScope"}

TokenPresent == call.lookup.kind = "token"

Covers == RequiredScopes(call.op) \subseteq Range(call.lookup.scopes)

Authorized == TokenPresent /\ Covers

PassedAuth == call.error.kind \notin AuthErrorKinds

\* the seven mutation keywords
MutationKeywords ==
    {<<"d","r","o","p">>,
     <<"d","e","l","e","t","e">>,
     <<"u","p","d","a","t","e">>,
     <<"i","n","s","e","r","t">>,
     <<"a","l","t","e","r">>,
     <<"c","r","e","a","t","e">>,
     <<"t","r","u","n","c","a","t","e">>}

HasMutationKeyword(sql) ==
    LET lowered == lower(sql)
    IN  \E k \in MutationKeywords : str_in(k, lowered)

HasLimitWord(sql) == str_in(<<"l","i","m","i","t">>, lower(sql))

\* s without its trailing semicolons: the prefix that does not end in ';' and is
\* followed by semicolons only
Stripped(s) ==
    CHOOSE p \in {SubSeq(s, 1, k) : k \in 0..Len(s)} :
        /\ (Len(p) = 0 \/ p[Len(p)] # ";")
        /\ \A i \in (Len(p) + 1)..Len(s) : s[i] = ";"

\* 'SELECT * FROM users LIMIT 100'
Sql_SelectUsersLimit100 ==
    <<"S","E","L","E","C","T"," ","*"," ","F","R","O","M"," ","u","s","e","r","s"," ","L","I","M","I","T"," ","1","0","0">>

SomeResultIsNone == \E i \in 1..Len(call.results) : call.results[i].is_none

\* ---- C1 --------------------------------------------------------------------
\* C1 as stated: for a scope-gated operation and a presented token, the call passes
\* authorization iff the token's scopes are a superset of the required scopes, and
\* every call that does not pass fails with a missing-scope error naming exactly
\* required minus token scopes (so scopes [] gives InsufficientScope).
C1_Original ==
    (call.op \in GatedOps /\ TokenPresent) =>
        /\ PassedAuth <=> Covers
        /\ ~PassedAuth =>
            /\ call.error.kind = "InsufficientScope"
            /\ Range(call.error.missing) =
                   RequiredScopes(call.op) \ Range(call.lookup.scopes)

\* C1 amended: the call passes authorization iff the token's scopes are a superset
\* of the required scopes; a rejected token that carries at least one scope gets a
\* missing-scope error naming exactly required minus token scopes, once each; a
\* token with an empty scope list gets the no-permissions error, naming no scope.
C1_ScopeCheck ==
    (call.op \in GatedOps /\ TokenPresent) =>
        /\ PassedAuth <=> Covers
        /\ (~PassedAuth /\ Len(call.lookup.scopes) > 0) =>
            /\ call.error.kind = "InsufficientScope"
            /\ Range(call.error.missing) =
                   RequiredScopes(call.op) \ Range(call.lookup.scopes)
            /\ Len(call.error.missing) = Cardinality(Range(call.error.missing))
        /\ Len(call.lookup.scopes) = 0 =>
            /\ call.error.kind = "NoPermissions"
            /\ call.error.missing = <<>>
        /\ ~PassedAuth => call.outcome = "error"

C1_Witness ==
    /\ call.op = "execute_sql_query"
    /\ TokenPresent
    /\ call.lookup.scopes = <<"data:read_tables", "data:other">>
    /\ call.error.kind = "InsufficientScope"
    /\ call.error.missing = <<"data:read_table_data">>

\* ---- C2 --------------------------------------------------------------------
\* C2: an authorized execute_sql_query whose text contains a mutation keyword
\* (case-insensitive substring) fails with ForbiddenOperation, and the call makes
\* no connection attempt and no query and leaves the database state alone.
C2_ForbiddenNoDbCall ==
    (call.op = "execute_sql_query" /\ Authorized
        /\ HasMutationKeyword(call.sql_query)) =>
        /\ call.outcome = "error"
        /\ call.error.kind = "ForbiddenOperation"
        /\ call.connectCalls = 0
        /\ call.queries = <<>>
        /\ ~call.called_init
        /\ db_manager = call.pre_db_manager
        /\ connection = call.pre_connection

C2_Witness ==
    /\ call.op = "execute_sql_query"
    /\ Authorized
    /\ call.sql_query = Sql_Truncate
    /\ call.pre_db_manager = "None"
    /\ call.dbUp
    /\ call.error.kind = "ForbiddenOperation"
    /\ db_manager = "None"

\* ---- C3 --------------------------------------------------------------------
\* C3 as stated: for an authorized call that passes the keyword filter, a query
\* without 'limit' is executed as the text with trailing ';' stripped followed by
\* " LIMIT <limit>", and a query with 'limit' is executed as the input with its
\* trailing semicolons stripped.
C3_Original ==
    (call.op = "execute_sql_query" /\ Authorized
        /\ ~HasMutationKeyword(call.sql_query) /\ Len(call.queries) > 0) =>
        call.queries[1] =
            IF ~HasLimitWord(call.sql_query)
            THEN Stripped(call.sql_query) \o <<" ","L","I","M","I","T"," ">>
                     \o str(call.limit)
            ELSE Stripped(call.sql_query)

\* C3 amended: a query without 'limit' is executed as the text with trailing ';'
\* stripped followed by " LIMIT <limit>" ('SELECT * FROM users' with the default
\* limit runs as 'SELECT * FROM users LIMIT 100'); a query with 'limit' is executed
\* exactly as given, trailing semicolons included.  Exactly one text is executed
\* and the envelope reports that text.
C3_LimitClause ==
    (call.op = "execute_sql_query" /\ Authorized
        /\ ~HasMutationKeyword(call.sql_query) /\ Len(call.queries) > 0) =>
        /\ Len(call.queries) = 1
        /\ call.queries[1] =
               IF ~HasLimitWord(call.sql_query)
               THEN Stripped(call.sql_query) \o <<" ","L","I","M","I","T"," ">>
                        \o str(call.limit)
               ELSE call.sql_query
        /\ (call.sql_query = Sql_SelectUsers /\ call.limit = DefaultLimit) =>
               call.queries[1] = Sql_SelectUsersLimit100
        /\ call.outcome = "envelope" => call.envelope.query = call.queries[1]

C3_Witness ==
    /\ call.op = "execute_sql_query"
    /\ Authorized
    /\ call.sql_query = Sql_UpperLimit \o <<";">>
    /\ call.queries = <<Sql_UpperLimit \o <<";">> >>
    /\ call.outcome = "envelope"

\* ---- C4 --------------------------------------------------------------------
\* C4: when any of the three queries of get_table_info fails, the authorized
\* get_table_structure call ends with an error naming the table, never with a
\* success envelope.
C4_DescribeFailure ==
    (call.op = "get_table_structure" /\ Authorized
        /\ Len(call.results) = 3 /\ SomeResultIsNone) =>
        /\ call.outcome = "error"
        /\ call.error.table = call.table_name

\* ---- C5 --------------------------------------------------------------------
\* C5: after a failed connection attempt (a DatabaseManager without a connection),
\* the next call that needs the database while the server is reachable attempts
\* the connection again and establishes it.
C5_LazyRetry ==
    (call.called_init /\ call.pre_db_manager = "DatabaseManager"
        /\ call.pre_connection = "None" /\ call.dbUp) =>
        /\ call.connectCalls >= 1
        /\ connection = "Connection"

\* ---- C6 --------------------------------------------------------------------
\* C6: get_database_tables with a token holding data:read_tables never returns a
\* success envelope with an empty table list when the catalog query failed or no
\* connection exists.
C6_NoSilentEmpty ==
    ~ /\ call.op = "get_database_tables"
      /\ Authorized
      /\ call.outcome = "envelope"
      /\ call.envelope.tables = <<>>
      /\ (call.query_connection = "None" \/ SomeResultIsNone)

\* ---- C7 --------------------------------------------------------------------
\* C7: health_check and get_user_permissions always end with a well-formed
\* envelope and never with an error, whatever the token lookup did and whatever
\* state the database is in; a raising token lookup gives user_id "error" and no
\* scopes.
C7_FailSoft ==
    /\ call.op = "health_check" =>
        /\ call.outcome = "envelope"
        /\ call.error = NoError
        /\ DOMAIN call.envelope = {"status", "database_connected", "message"}
        /\ call.envelope.status \in {"healthy", "unhealthy"}
        /\ call.envelope.database_connected \in BOOLEAN
    /\ call.op = "get_user_permissions" =>
        /\ call.outcome = "envelope"
        /\ call.error = NoError
        /\ DOMAIN call.envelope =
               {"user_id", "scopes", "can_read_tables", "can_read_table_data", "message"}
        /\ call.lookup.kind = "raises" =>
               (call.envelope.user_id = "error" /\ call.envelope.scopes = <<>>)
        /\ call.lookup.kind = "none" => call.envelope.scopes = <<>>

C7_Witness ==
    /\ call.op = "health_check"
    /\ call.lookup = NoToken
    /\ call.pre_db_manager = "None"
    /\ ~call.dbUp
    /\ call.connectCalls = 1
    /\ call.outcome = "envelope"
    /\ call.envelope.status = "unhealthy"

\* ---- C8 --------------------------------------------------------------------
\* C8 as stated: when execute_query returns None the authorized, filtered call
\* ends with QueryExecutionFailed and no envelope, and the connection state is
\* exactly what it was before the call; a successful query with zero rows returns
\* row_count 0 and no columns.
C8_Original ==
    (call.op = "execute_sql_query" /\ Len(call.results) = 1) =>
        /\ call.results[1].is_none =>
            /\ call.outcome = "error"
            /\ call.error.kind = "QueryExecutionFailed"
            /\ db_manager = call.pre_db_manager
            /\ connection = call.pre_connection
        /\ (~call.results[1].is_none /\ call.results[1].rows = <<>>) =>
            /\ call.outcome = "envelope"
            /\ call.envelope.row_count = 0
            /\ call.envelope.columns = <<>>

\* C8 amended: when execute_query returns None the call ends with
\* QueryExecutionFailed and no envelope, and the connection state is exactly what
\* it was when the query was issued (no reconnect, no reset); it is the state from
\* before the call whenever the DatabaseManager existed before the call (a first
\* use creates and connects it before the query).  A successful query with zero
\* rows returns row_count 0 and no columns.
C8_QueryFailure ==
    (call.op = "execute_sql_query" /\ Len(call.results) = 1) =>
        /\ call.results[1].is_none =>
            /\ call.outcome = "error"
            /\ call.error.kind = "QueryExecutionFailed"
            /\ db_manager = "DatabaseManager"
            /\ connection = call.query_connection
            /\ call.pre_db_manager = "DatabaseManager" =>
                /\ connection = call.pre_connection
                /\ call.connectCalls = 0
        /\ (~call.results[1].is_none /\ call.results[1].rows = <<>>) =>
            /\ call.outcome = "envelope"
            /\ call.envelope.row_count = 0
            /\ call.envelope.columns = <<>>
            /\ call.envelope.data = <<>>

C8_Witness ==
    /\ call.op = "execute_sql_query"
    /\ call.pre_connection = "Connection"
    /\ call.dbUp
    /\ call.results = <<NoneResult>>
    /\ call.error.kind = "QueryExecutionFailed"
    /\ connection = "Connection"

\* ---- C9 --------------------------------------------------------------------
\* C9: in the three scope-gated tools authorization comes first: unless a token
\* is present and covers the required scopes, the call ends with an authorization
\* error (also when the SQL holds a mutation keyword), creates no DatabaseManager,
\* attempts no connection, issues no query and leaves the database state as it was.
C9_AuthFirst ==
    (call.op \in GatedOps /\ ~Authorized) =>
        /\ call.outcome = "error"
        /\ call.error.kind \in AuthErrorKinds
        /\ ~call.called_init
        /\ call.connectCalls = 0
        /\ call.queries = <<>>
        /\ db_manager = call.pre_db_manager
        /\ connection = call.pre_connection

C9_Witness ==
    /\ call.op = "execute_sql_query"
    /\ TokenPresent
    /\ call.lookup.scopes = <<"data:read_tables">>
    /\ call.sql_query = Sql_Drop
    /\ call.dbUp
    /\ call.pre_db_manager = "None"
    /\ call.error.kind = "InsufficientScope"
    /\ db_manager = "None"

\* ---- C10 -------------------------------------------------------------------
\* C10: whenever health_check answers status "healthy" with database_connected
\* true, the shared DatabaseManager holds a connection.
C10_HealthyMeansConnected ==
    (call.op = "health_check" /\ call.outcome = "envelope"
        /\ call.envelope.status = "healthy"
        /\ call.envelope.database_connected) =>
        connection = "Connection"

====
